---- MODULE Spec2Model ----
(***************************************************************************)
(* Guestbook backend (src/backend/server.js): an Express server with two   *)
(* routes, GET /api/messages and POST /api/messages, over a MySQL table    *)
(* `messages` (the Store) and an optional Redis key `guestbook:messages`   *)
(* (the Cache).  Every `await` of a handler is a step boundary: the        *)
(* actions below are the segments of the handlers between two awaits,      *)
(* merged with the Store or Cache operation whose completion resumes them. *)
(***************************************************************************)
EXTENDS Integers, Sequences, FiniteSets

VARIABLES
    server,       \* position of startServer: boot .. listening | exited | crashed
    dbEnv,        \* DB_HOST, DB_USER, DB_PASSWORD and DB_NAME are all set
    redisEnv,     \* REDIS_HOST and REDIS_PORT are both set
    dbCreated,    \* CREATE DATABASE IF NOT EXISTS has succeeded
    tableCreated, \* CREATE TABLE IF NOT EXISTS messages has succeeded
    dbPool,       \* the module-level dbPool is assigned
    redisClient,  \* the module-level redisClient is assigned
    isOpen,       \* redisClient.isOpen
    dbUp,         \* the MySQL server is reachable
    now,          \* the MySQL server's clock, in seconds
    ticks,        \* number of clock steps taken
    store,        \* rows of table messages, in insertion order
    nextId,       \* the table's AUTO_INCREMENT counter
    cache,        \* the Redis key guestbook:messages
    req,          \* the requests, one per slot
    lastPosted    \* content of the POST whose 201 was the latest event, else <<>>

vars == <<server, dbEnv, redisEnv, dbCreated, tableCreated, dbPool, redisClient,
          isOpen, dbUp, now, ticks, store, nextId, cache, req, lastPosted>>

startupVars == <<dbEnv, redisEnv, dbCreated, tableCreated, dbPool, redisClient, isOpen>>

----------------------------------------------------------------------------
(* Bounds of the model *)

MaxReqs == 2
MaxRows == 2
MaxLen == 2
MaxTicks == 1

(* Program constants *)

TTL == 3600

Slots == 1..MaxReqs
Chars == {" ", "h"}

----------------------------------------------------------------------------
(* Strings are sequences of characters. *)

Strings == UNION { [1..n -> Chars] : n \in 0..MaxLen }

RECURSIVE TrimStart(_)
TrimStart(s) == IF s # <<>> /\ Head(s) = " " THEN TrimStart(Tail(s)) ELSE s

RECURSIVE TrimEnd(_)
TrimEnd(s) ==
    IF s # <<>> /\ s[Len(s)] = " " THEN TrimEnd(SubSeq(s, 1, Len(s) - 1)) ELSE s

\* String.prototype.trim
Trim(s) == TrimEnd(TrimStart(s))

(* The values `content` of a request body can take: absent, a number, a    *)
(* string.                                                                 *)
Undefined == [t |-> "undefined", s |-> <<>>, n |-> 0]
Num(k) == [t |-> "number", s |-> <<>>, n |-> k]
Str(x) == [t |-> "string", s |-> x, n |-> 0]

Contents == {Undefined, Num(0), Num(5)} \cup { Str(x) : x \in Strings }

\* JavaScript truthiness of a content value
Truthy(c) ==
    CASE c.t = "undefined" -> FALSE
      [] c.t = "number" -> c.n # 0
      [] OTHER -> c.s # <<>>

\* the test of line 165 without the trim
MutIsBlank(c) == ~Truthy(c) \/ (c.t = "string" /\ c.s = <<>>)

\* server.js:165, for the values on which it does not throw
IsBlank(c) == ~Truthy(c) \/ (c.t = "string" /\ Trim(c.s) = <<>>)

\* server.js:165: content.trim is not a function
ThrowsTypeError(c) == Truthy(c) /\ c.t # "string"

----------------------------------------------------------------------------
(* Rows and their JSON form.  A row read from MySQL carries created_at as  *)
(* a Date (here: seconds); JSON.stringify writes a Date as its ISO string, *)
(* here the fields <<hours, minutes, seconds>>, and JSON.parse gives the   *)
(* string back, not a Date.                                                *)

Row(i, c, t) == [id |-> i, content |-> c, created_at |-> t]

toISOString(t) == <<t \div 3600, (t \div 60) % 60, t % 60>>

\* JSON.stringify of one row / of the array of rows
StringifyRow(r) == [id |-> r.id, content |-> r.content, created_at |-> toISOString(r.created_at)]
Stringify(rows) == [i \in 1..Len(rows) |-> StringifyRow(rows[i])]

\* comparison of two ISO strings, character by character
IsoGE(a, b) ==
    \/ a[1] > b[1]
    \/ a[1] = b[1] /\ a[2] > b[2]
    \/ a[1] = b[1] /\ a[2] = b[2] /\ a[3] >= b[3]

\* the query without its ORDER BY
MutOrderByCreatedAtDesc(s, q) == TRUE

\* ORDER BY created_at DESC: q is an order of the rows of s that sorts them
OrderByCreatedAtDesc(s, q) ==
    \A i, j \in 1..Len(s) : i < j => s[q[i]].created_at >= s[q[j]].created_at

Perms(n) == { q \in [1..n -> 1..n] : \A i, j \in 1..n : q[i] = q[j] => i = j }

\* the query with a LIMIT 1: only the first row of the ordered result
MutListAll(s) ==
    { [i \in 1..(IF Len(s) > 1 THEN 1 ELSE Len(s)) |-> s[q[i]]] :
        q \in { p \in Perms(Len(s)) : OrderByCreatedAtDesc(s, p) } }

\* The results SELECT ... FROM messages ORDER BY created_at DESC may give:
\* the order of rows with equal created_at is not determined.
ListAll(s) ==
    { [i \in 1..Len(s) |-> s[q[i]]] : q \in { p \in Perms(Len(s)) : OrderByCreatedAtDesc(s, p) } }

\* a re-read of the newest row instead of the row of the given id
MutSelectById(s, i) == IF s = <<>> THEN <<>> ELSE <<s[Len(s)]>>

\* SELECT ... FROM messages WHERE id = ?
SelectById(s, i) == SelectSeq(s, LAMBDA r : r.id = i)

----------------------------------------------------------------------------
(* The Cache entry and the responses *)

NoEntry == [present |-> FALSE, val |-> <<>>, expireAt |-> 0]

\* a lookup under a key that is never written
MutCacheGet == NoEntry

\* GET key: the value, unless absent or expired
CacheGet == IF cache.present /\ now < cache.expireAt THEN cache ELSE NoEntry

\* a write whose expiry is taken in another unit, twice as long
MutSetEx(seconds, val) == [present |-> TRUE, val |-> val, expireAt |-> now + 2 * seconds]

\* SETEX key seconds value
SetEx(seconds, val) == [present |-> TRUE, val |-> val, expireAt |-> now + seconds]

\* a delete that leaves the key in place
MutDel(c) == c

\* DEL key
Del(c) == NoEntry

\* the guard without the isOpen test
MutCacheAvailable == redisClient

\* redisClient && redisClient.isOpen
CacheAvailable == redisClient /\ isOpen

NoResp == [status |-> 0, json |-> FALSE, error |-> "", list |-> <<>>]
Json(status, list) == [status |-> status, json |-> TRUE, error |-> "", list |-> list]
JsonError(status, msg) == [status |-> status, json |-> TRUE, error |-> msg, list |-> <<>>]
\* the framework's own error page
Html(status) == [status |-> status, json |-> FALSE, error |-> "", list |-> <<>>]

(* A request: the handler's position and locals (kind, pc, raw, rows,      *)
(* newId), the response sent (resp, responses), and a record of what the   *)
(* request did (alone, after, seen, cacheOps, cacheFail, storeFail, hit).  *)
Idle == [kind |-> "none", pc |-> "idle", raw |-> Undefined, rows |-> <<>>, newId |-> 0,
         resp |-> NoResp, responses |-> 0, alone |-> FALSE, after |-> <<>>, seen |-> 0,
         cacheOps |-> 0, cacheFail |-> FALSE, storeFail |-> FALSE, hit |-> FALSE]

InFlight(r) == req[r].pc \notin {"idle", "done", "rejected"}
\* a new request takes the first slot that holds no request in flight
Free(r) == ~InFlight(r) /\ \A x \in Slots : x < r => InFlight(x)
Quiet == \A r \in Slots : ~InFlight(r)

\* res.status(..).json(..): the handler's last step
Done(rec, resp) ==
    [rec EXCEPT !.pc = "done", !.resp = resp, !.responses = @ + 1,
                !.rows = <<>>, !.newId = 0]

\* the content of a POST answered with 201 that no request overlapped, else <<>>
Posted(rec) ==
    IF rec.kind = "POST" /\ rec.pc = "done" /\ rec.resp.status = 201 /\ rec.alone
    THEN Trim(rec.raw.s) ELSE <<>>

\* a request arrives in slot r: the requests in flight are no longer alone
Arrive(r, rec) ==
    [x \in Slots |-> IF x = r THEN rec
                     ELSE IF InFlight(x) THEN [req[x] EXCEPT !.after = <<>>, !.alone = FALSE]
                     ELSE req[x]]

\* the request in slot r takes a step
Step(r, rec) ==
    /\ req' = [req EXCEPT ![r] = rec]
    /\ lastPosted' = IF rec.pc = "done" THEN Posted(rec) ELSE lastPosted

----------------------------------------------------------------------------
(* startServer, initializeMySQL, initializeRedis *)

Init ==
    /\ server = "boot"
    /\ dbEnv \in BOOLEAN
    /\ redisEnv \in BOOLEAN
    /\ dbUp \in BOOLEAN
    /\ dbCreated = FALSE
    /\ tableCreated = FALSE
    /\ dbPool = FALSE
    /\ redisClient = FALSE
    /\ isOpen = FALSE
    /\ now = 0
    /\ ticks = 0
    /\ store = <<>>
    /\ nextId = 1
    /\ cache = NoEntry
    /\ req = [r \in Slots |-> Idle]
    /\ lastPosted = <<>>

\* startup without the test of line 42
MutMissingEnv == FALSE

\* server.js:42
MissingEnv == ~dbEnv

\* server.js:37-45: missing configuration ends the process
CheckEnv ==
    /\ server = "boot"
    /\ server' = IF MissingEnv THEN "exited" ELSE "connecting"
    /\ UNCHANGED <<startupVars, dbUp, now, ticks, store, nextId, cache, req, lastPosted>>

\* server.js:49-53, and 81-91 when it fails.  Without DB_HOST the driver
\* connects to its default host.
Connect ==
    /\ server = "connecting"
    /\ server' = IF dbUp THEN "createdb" ELSE "exited"
    /\ UNCHANGED <<startupVars, dbUp, now, ticks, store, nextId, cache, req, lastPosted>>

\* server.js:56-69, and 81-91 when it fails
CreateDatabase ==
    /\ server = "createdb"
    /\ IF dbUp
       THEN /\ dbCreated' = TRUE
            /\ dbPool' = TRUE
            /\ server' = "createtable"
       ELSE /\ server' = "exited"
            /\ UNCHANGED <<dbCreated, dbPool>>
    /\ UNCHANGED <<dbEnv, redisEnv, tableCreated, redisClient, isOpen,
                   dbUp, now, ticks, store, nextId, cache, req, lastPosted>>

\* server.js:72-78, and 81-91 when it fails
CreateTable ==
    /\ server = "createtable"
    /\ IF dbUp
       THEN /\ tableCreated' = TRUE
            /\ server' = "redis"
       ELSE /\ server' = "exited"
            /\ UNCHANGED tableCreated
    /\ UNCHANGED <<dbEnv, redisEnv, dbCreated, dbPool, redisClient, isOpen,
                   dbUp, now, ticks, store, nextId, cache, req, lastPosted>>

\* server.js:99-127: no configuration, a connection, or a failed connection
InitializeRedis ==
    /\ server = "redis"
    /\ IF ~redisEnv
       THEN UNCHANGED <<redisClient, isOpen>>
       ELSE /\ redisClient' = TRUE
            /\ \E connected \in BOOLEAN : isOpen' = connected
    /\ server' = "listen"
    /\ UNCHANGED <<dbEnv, redisEnv, dbCreated, tableCreated, dbPool,
                   dbUp, now, ticks, store, nextId, cache, req, lastPosted>>

\* server.js:200
Listen ==
    /\ server = "listen"
    /\ server' = "listening"
    /\ UNCHANGED <<startupVars, dbUp, now, ticks, store, nextId, cache, req, lastPosted>>

----------------------------------------------------------------------------
(* The environment: the MySQL server's clock and reachability *)

Alive == server \notin {"exited", "crashed"}

Tick ==
    /\ server = "listening"
    /\ ticks < MaxTicks
    /\ \E d \in {1, TTL} : now' = now + d
    /\ ticks' = ticks + 1
    /\ UNCHANGED <<server, startupVars, dbUp, store, nextId, cache, req, lastPosted>>

StoreDown ==
    /\ Alive
    /\ dbUp
    /\ dbUp' = FALSE
    /\ UNCHANGED <<server, startupVars, now, ticks, store, nextId, cache, req, lastPosted>>

StoreUp ==
    /\ Alive
    /\ ~dbUp
    /\ dbUp' = TRUE
    /\ UNCHANGED <<server, startupVars, now, ticks, store, nextId, cache, req, lastPosted>>

----------------------------------------------------------------------------
(* app.get('/api/messages') *)

DbUnavailable == JsonError(503, "Database service not available.")
GetFailed == JsonError(500, "Failed to retrieve messages")
PostFailed == JsonError(500, "Failed to post message")
EmptyContent == JsonError(400, "Message content cannot be empty")

\* server.js:145-148
GetToStore(rec) ==
    IF ~dbPool THEN Done(rec, DbUnavailable) ELSE [rec EXCEPT !.pc = "get_query"]

\* server.js:134-137 and 142-148
StartGet(r) ==
    /\ server = "listening"
    /\ Free(r)
    /\ LET rec == [Idle EXCEPT !.kind = "GET", !.alone = Quiet,
                               !.after = IF Quiet THEN lastPosted ELSE <<>>]
       IN  req' = Arrive(r, IF CacheAvailable
                            THEN [rec EXCEPT !.pc = "get_cache", !.cacheOps = 1]
                            ELSE GetToStore(rec))
    /\ lastPosted' = <<>>
    /\ UNCHANGED <<server, startupVars, dbUp, now, ticks, store, nextId, cache>>

\* server.js:137-141 and 145-148; 156-158 when the Cache read fails
GetCache(r) ==
    /\ server = "listening"
    /\ req[r].pc = "get_cache"
    /\ \E ok \in BOOLEAN :
         IF ~ok
         THEN Step(r, Done([req[r] EXCEPT !.cacheFail = TRUE], GetFailed))
         ELSE IF CacheGet.present
         THEN \* JSON.parse leaves created_at a string, res.json writes it back
              Step(r, Done([req[r] EXCEPT !.hit = TRUE], Json(200, CacheGet.val)))
         ELSE Step(r, GetToStore(req[r]))
    /\ UNCHANGED <<server, startupVars, dbUp, now, ticks, store, nextId, cache>>

\* server.js:149-155; 156-158 when the query fails
GetQuery(r) ==
    /\ server = "listening"
    /\ req[r].pc = "get_query"
    /\ IF ~dbUp
       THEN Step(r, Done([req[r] EXCEPT !.storeFail = TRUE], GetFailed))
       ELSE \E rows \in ListAll(store) :
              LET rec == [req[r] EXCEPT !.seen = Len(store)]
              IN  IF CacheAvailable
                  THEN Step(r, [rec EXCEPT !.pc = "get_setex", !.rows = rows,
                                           !.cacheOps = @ + 1])
                  ELSE Step(r, Done(rec, Json(200, Stringify(rows))))
    /\ UNCHANGED <<server, startupVars, dbUp, now, ticks, store, nextId, cache>>

\* server.js:151-155; 156-158 when the Cache write fails
GetSetEx(r) ==
    /\ server = "listening"
    /\ req[r].pc = "get_setex"
    /\ \E ok \in BOOLEAN :
         IF ~ok
         THEN /\ Step(r, Done([req[r] EXCEPT !.cacheFail = TRUE], GetFailed))
              /\ UNCHANGED cache
         ELSE /\ cache' = SetEx(TTL, Stringify(req[r].rows))
              /\ Step(r, Done(req[r], Json(200, Stringify(req[r].rows))))
    /\ UNCHANGED <<server, startupVars, dbUp, now, ticks, store, nextId>>

----------------------------------------------------------------------------
(* app.post('/api/messages') *)

\* rows already in the table or about to be inserted
Pending == Len(store) + Cardinality({ x \in Slots : req[x].pc = "post_insert" })

\* server.js:162-176 for a content on which line 165 does not throw
StartPost(r, c) ==
    /\ server = "listening"
    /\ Free(r)
    /\ ~ThrowsTypeError(c)
    /\ IsBlank(c) \/ Pending < MaxRows
    /\ LET rec == [Idle EXCEPT !.kind = "POST", !.raw = c, !.alone = Quiet]
       IN  req' = Arrive(r, IF IsBlank(c) THEN Done(rec, EmptyContent)
                            ELSE IF ~dbPool THEN Done(rec, DbUnavailable)
                            ELSE [rec EXCEPT !.pc = "post_insert"])
    /\ lastPosted' = <<>>
    /\ UNCHANGED <<server, startupVars, dbUp, now, ticks, store, nextId, cache>>

(* server.js:165 with a content that is truthy and no string: the call of  *)
(* content.trim throws outside the try block, the async handler's promise  *)
(* rejects.  What follows depends on the framework and runtime: nothing    *)
(* (the request is never answered), the framework's error page, or the end *)
(* of the process on the unhandled rejection.                              *)
StartPostThrow(r, c) ==
    /\ server = "listening"
    /\ Free(r)
    /\ ThrowsTypeError(c)
    /\ LET rec == [Idle EXCEPT !.kind = "POST", !.raw = c, !.alone = Quiet]
       IN  \E outcome \in {"hang", "page", "crash"} :
             /\ req' = Arrive(r, IF outcome = "page" THEN Done(rec, Html(500))
                                 ELSE [rec EXCEPT !.pc = "rejected"])
             /\ server' = IF outcome = "crash" THEN "crashed" ELSE server
    /\ lastPosted' = <<>>
    /\ UNCHANGED <<startupVars, dbUp, now, ticks, store, nextId, cache>>

\* a handler that goes from the insert to the re-read, without invalidation
MutAfterInsert(rec) == [rec EXCEPT !.pc = "post_reread"]

\* server.js:179-186: after the insert, the invalidation if the Cache is
\* available, else the re-read
AfterInsert(rec) ==
    IF CacheAvailable
    THEN [rec EXCEPT !.pc = "post_del", !.cacheOps = @ + 1]
    ELSE [rec EXCEPT !.pc = "post_reread"]

\* an insert of the content as received
MutInsertParam(c) == c.s

\* server.js:175: the parameter bound to the INSERT
InsertParam(c) == Trim(c.s)

\* server.js:173-184 and 186; 189-191 when the insert fails
PostInsert(r) ==
    /\ server = "listening"
    /\ req[r].pc = "post_insert"
    /\ IF ~dbUp
       THEN /\ Step(r, Done([req[r] EXCEPT !.storeFail = TRUE], PostFailed))
            /\ UNCHANGED <<store, nextId>>
       ELSE /\ store' = Append(store, Row(nextId, InsertParam(req[r].raw), now))
            /\ nextId' = nextId + 1
            /\ Step(r, AfterInsert([req[r] EXCEPT !.newId = nextId]))
    /\ UNCHANGED <<server, startupVars, dbUp, now, ticks, cache>>

\* server.js:180-181 and 186; 189-191 when the delete fails
PostDel(r) ==
    /\ server = "listening"
    /\ req[r].pc = "post_del"
    /\ \E ok \in BOOLEAN :
         IF ~ok
         THEN /\ Step(r, Done([req[r] EXCEPT !.cacheFail = TRUE], PostFailed))
              /\ UNCHANGED cache
         ELSE /\ cache' = Del(cache)
              /\ Step(r, [req[r] EXCEPT !.pc = "post_reread"])
    /\ UNCHANGED <<server, startupVars, dbUp, now, ticks, store, nextId>>

\* server.js:186-187; 189-191 when the query fails
PostReread(r) ==
    /\ server = "listening"
    /\ req[r].pc = "post_reread"
    /\ IF ~dbUp
       THEN Step(r, Done([req[r] EXCEPT !.storeFail = TRUE], PostFailed))
       ELSE Step(r, Done(req[r], Json(201, Stringify(SelectById(store, req[r].newId)))))
    /\ UNCHANGED <<server, startupVars, dbUp, now, ticks, store, nextId, cache>>

----------------------------------------------------------------------------

Next ==
    \/ CheckEnv
    \/ Connect
    \/ CreateDatabase
    \/ CreateTable
    \/ InitializeRedis
    \/ Listen
    \/ Tick
    \/ StoreDown
    \/ StoreUp
    \/ \E r \in Slots : StartGet(r)
    \/ \E r \in Slots : GetCache(r)
    \/ \E r \in Slots : GetQuery(r)
    \/ \E r \in Slots : GetSetEx(r)
    \/ \E r \in Slots, c \in Contents : StartPost(r, c)
    \/ \E r \in Slots, c \in Contents : StartPostThrow(r, c)
    \/ \E r \in Slots : PostInsert(r)
    \/ \E r \in Slots : PostDel(r)
    \/ \E r \in Slots : PostReread(r)

Spec == Init /\ [][Next]_vars

----------------------------------------------------------------------------
(* Vocabulary of the properties *)

Answered(r, kind) == req[r].kind = kind /\ req[r].pc = "done"

Contains(list, c) == \E i \in 1..Len(list) : list[i].content = c

\* content is absent, the empty string, or made of spaces only
Blank(c) ==
    \/ c.t = "undefined"
    \/ c.t = "string" /\ \A i \in 1..Len(c.s) : c.s[i] = " "

\* the JSON forms of the full lists the Store can return for its first k rows
Listings(k) == { Stringify(l) : l \in ListAll(SubSeq(store, 1, k)) }

----------------------------------------------------------------------------
\* C1: a GET that starts right after a POST of s was answered 201, no other
\* request overlapping either of them, is answered 200 unless one of its own
\* Store or Cache operations fails, and its 200 list has an entry whose
\* content is trim(s).
C1_ReadAfterWrite ==
    \A r \in Slots :
        (Answered(r, "GET") /\ req[r].after # <<>>) =>
            /\ req[r].resp.status = 200 => Contains(req[r].resp.list, req[r].after)
            /\ (~req[r].cacheFail /\ ~req[r].storeFail) => req[r].resp.status = 200

\* such a GET, answered from the Store through an available Cache with two rows
C1_Witness ==
    \E r \in Slots :
        /\ Answered(r, "GET") /\ req[r].after # <<>>
        /\ req[r].resp.status = 200 /\ req[r].cacheOps = 2
        /\ Len(req[r].resp.list) = 2

\* C2: a POST whose content is missing, empty or whitespace-only is answered
\* 400 'Message content cannot be empty' at once, and its step changes neither
\* the Store nor the Cache entry, whatever their availability.
C2_BlankRejected ==
    /\ [](\A r \in Slots :
            (req[r].kind = "POST" /\ Blank(req[r].raw)) =>
                /\ req[r].pc = "done"
                /\ req[r].responses = 1
                /\ req[r].resp = [status |-> 400, json |-> TRUE,
                                  error |-> "Message content cannot be empty",
                                  list |-> <<>>])
    /\ [][\A r \in Slots :
            (req'[r] # req[r] /\ req'[r].kind = "POST" /\ Blank(req'[r].raw)) =>
                (store' = store /\ nextId' = nextId /\ cache' = cache)]_vars

\* a whitespace-only POST answered 400 with the Store down, rows in the table
\* and an entry in the Cache
C2_Witness ==
    \E r \in Slots :
        /\ Answered(r, "POST") /\ req[r].raw.t = "string" /\ Len(req[r].raw.s) = 2
        /\ Blank(req[r].raw) /\ req[r].resp.status = 400
        /\ ~dbUp /\ store # <<>> /\ cache.present

\* C3: when no request is in flight, the Cache entry, if there is one, holds
\* the message of every POST that was answered 201 (a read that raced the
\* write has left no list without it).
C3_QuietCacheFresh ==
    Quiet =>
        \A p \in Slots :
            (Answered(p, "POST") /\ req[p].resp.status = 201 /\ CacheGet.present) =>
                \E i \in 1..Len(CacheGet.val) :
                    CacheGet.val[i].id = req[p].resp.list[1].id

\* C4: a request whose Cache operation failed is still answered 200 (GET) or
\* 201 (POST).
C4_CacheFailureHidden ==
    \A r \in Slots :
        (req[r].pc = "done" /\ req[r].cacheFail) =>
            req[r].resp.status = (IF req[r].kind = "GET" THEN 200 ELSE 201)

\* C5: with the Cache never configured or its client not open, no request
\* performs a Cache operation, every GET whose Store query succeeds answers 200
\* with the Store's full list, and every POST of a non-blank string whose
\* Store operations succeed answers 201 with the row it inserted.
C5_CacheDisabled ==
    ~(redisClient /\ isOpen) =>
        /\ ~cache.present
        /\ \A r \in Slots :
            /\ req[r].cacheOps = 0 /\ ~req[r].hit /\ ~req[r].cacheFail
            /\ req[r].pc \notin {"get_cache", "get_setex", "post_del"}
            /\ (Answered(r, "GET") /\ ~req[r].storeFail) =>
                   /\ req[r].resp.status = 200
                   /\ req[r].resp.list \in Listings(req[r].seen)
            /\ (Answered(r, "POST") /\ req[r].raw.t = "string" /\ ~Blank(req[r].raw)
                                     /\ ~req[r].storeFail) =>
                   /\ req[r].resp.status = 201
                   /\ Len(req[r].resp.list) = 1
                   /\ req[r].resp.list[1].content = Trim(req[r].raw.s)
                   /\ \E i \in 1..Len(store) : req[r].resp.list[1] = StringifyRow(store[i])

\* the Cache client exists but is not open, a POST was answered 201 and a GET 200
C5_Witness ==
    /\ redisClient /\ ~isOpen
    /\ \E r \in Slots : Answered(r, "POST") /\ req[r].resp.status = 201
    /\ \E r \in Slots : Answered(r, "GET") /\ req[r].resp.status = 200
                        /\ Len(req[r].resp.list) = 2

\* C6: the list of every 200 answer of GET, from the Store or from the Cache,
\* is sorted by created_at descending.
C6_SortedDescending ==
    \A r \in Slots :
        (Answered(r, "GET") /\ req[r].resp.status = 200) =>
            \A i, j \in 1..Len(req[r].resp.list) :
                i < j => IsoGE(req[r].resp.list[i].created_at, req[r].resp.list[j].created_at)

\* a list of two rows with different created_at, served from the Cache
C6_Witness ==
    \E r \in Slots :
        /\ Answered(r, "GET") /\ req[r].resp.status = 200 /\ req[r].hit
        /\ Len(req[r].resp.list) = 2
        /\ req[r].resp.list[1].created_at # req[r].resp.list[2].created_at

\* C7: in every list GET answers, a message inserted later stands before every
\* message inserted earlier, also when both have the same created_at; a list
\* of one row read from a Store that held one row is that row, with id 1.
C7_NewestFirst ==
    \A r \in Slots :
        (Answered(r, "GET") /\ req[r].resp.status = 200) =>
            /\ \A i, j \in 1..Len(req[r].resp.list) :
                   i < j => req[r].resp.list[i].id > req[r].resp.list[j].id
            /\ Len(req[r].resp.list) = 1 => req[r].resp.list[1].id = 1

\* C8: a request that found the Store unreachable is answered 503 with an
\* error message.
C8_Unreachable503 ==
    \A r \in Slots :
        (req[r].pc = "done" /\ req[r].storeFail) =>
            (req[r].resp.status = 503 /\ req[r].resp.json /\ req[r].resp.error # "")

\* C9: every request that has arrived is in progress or has been answered
\* exactly once, the process still running; an answer that is not 200 or 201
\* has status 400, 500 or 503 and a JSON body with an error message.
C9_OneJsonResponse ==
    /\ server # "crashed"
    /\ \A r \in Slots :
        /\ req[r].pc # "rejected"
        /\ req[r].pc = "done" =>
            /\ req[r].responses = 1
            /\ req[r].resp.status \in {200, 201, 400, 500, 503}
            /\ req[r].resp.status \notin {200, 201} =>
                   (req[r].resp.json /\ req[r].resp.error # "")

\* C10: the server listens, and a request is handled, only with the Store
\* configuration present and the database, the pool and the table set up;
\* with the configuration missing the process never gets beyond its exit.
C10_NoHalfInitialized ==
    /\ server \in {"redis", "listen", "listening", "crashed"} =>
           (dbEnv /\ dbCreated /\ dbPool /\ tableCreated)
    /\ (\E r \in Slots : req[r].pc # "idle") =>
           (server \in {"listening", "crashed"} /\ dbEnv /\ dbCreated /\ dbPool /\ tableCreated)
    /\ ~dbEnv => server \in {"boot", "exited"}
    /\ server = "exited" => (\A r \in Slots : req[r] = Idle) /\ store = <<>>

\* the server listens and has answered a request
C10_Witness ==
    /\ server = "listening"
    /\ \E r \in Slots : req[r].pc = "done" /\ req[r].resp.status = 200

\* C11: the rows of the Store have ids that increase strictly in insertion
\* order (so they are pairwise distinct), every content is non-empty and has no
\* leading or trailing space, and every step leaves the rows that exist as
\* they are: the Store only grows, and the id counter never goes back.
C11_StoreRowsImmutable ==
    /\ [](/\ \A i, j \in 1..Len(store) : i < j => store[i].id < store[j].id
          /\ \A i \in 1..Len(store) :
                /\ store[i].content # <<>>
                /\ store[i].content[1] # " "
                /\ store[i].content[Len(store[i].content)] # " "
                /\ store[i].id < nextId)
    /\ [][/\ Len(store') >= Len(store)
          /\ SubSeq(store', 1, Len(store)) = store
          /\ nextId' >= nextId]_vars

\* two rows in the Store, inserted by two POSTs that are both still in flight,
\* one of them from a content with surrounding spaces
C11_Witness ==
    /\ Len(store) = 2
    /\ \A r \in Slots : r <= 2 =>
          (req[r].kind = "POST" /\ req[r].pc \in {"post_del", "post_reread"})
    /\ \E r \in Slots : req[r].kind = "POST" /\ InFlight(r)
                        /\ req[r].raw.s # Trim(req[r].raw.s)

\* C12: a POST answered 201 carries exactly one row, the one row of the
\* Store that has its id, as the Store holds it, and its content is the trim of
\* the content received; two POSTs answered 201 carry different rows; the
\* step that inserts for a request adds one row, of the id the request keeps.
C12_CreatedRowReturned ==
    /\ [](\A r \in Slots :
            (Answered(r, "POST") /\ req[r].resp.status = 201) =>
                /\ Len(req[r].resp.list) = 1
                /\ req[r].resp.list[1].content = Trim(req[r].raw.s)
                /\ Cardinality({ i \in 1..Len(store) :
                                   store[i].id = req[r].resp.list[1].id }) = 1
                /\ \A i \in 1..Len(store) :
                       store[i].id = req[r].resp.list[1].id =>
                           req[r].resp.list[1] = StringifyRow(store[i])
                /\ \A q \in Slots :
                       (q # r /\ Answered(q, "POST") /\ req[q].resp.status = 201) =>
                           req[q].resp.list[1].id # req[r].resp.list[1].id)
    /\ [][\A r \in Slots :
            (req[r].pc = "post_insert" /\ req'[r].pc \in {"post_del", "post_reread"}) =>
                /\ Len(store') = Len(store) + 1
                /\ store'[Len(store')].id = req'[r].newId
                /\ store'[Len(store')].content = Trim(req[r].raw.s)]_vars
    /\ [][\A r \in Slots :
            (req[r].pc \in {"post_del", "post_reread"} /\ req'[r] # req[r]) =>
                store' = store]_vars

\* two interleaved POSTs of different contents, both answered 201
C12_Witness ==
    \E r, q \in Slots :
        /\ Answered(r, "POST") /\ req[r].resp.status = 201 /\ ~req[r].alone
        /\ Answered(q, "POST") /\ req[q].resp.status = 201 /\ ~req[q].alone
        /\ req[r].resp.list[1].id < req[q].resp.list[1].id
        /\ req[r].resp.list[1].content # req[q].resp.list[1].content

\* C13: an invalidation that is carried out leaves the Cache entry absent,
\* whether it found an entry or not; one that finds the entry already absent
\* (the second of two in a row) changes nothing, and its request goes on to the
\* re-read like the first.
C13_InvalidateIdempotent ==
    [][\A r \in Slots :
         (req[r].pc = "post_del" /\ req'[r].pc # "post_del" /\ ~req'[r].cacheFail) =>
             /\ ~cache'.present
             /\ cache' = NoEntry
             /\ ~cache.present => cache' = cache
             /\ req'[r].pc = "post_reread"]_vars

\* two concurrent POSTs have both carried out their invalidation, the second
\* one on an entry already absent
C13_Witness ==
    /\ ~cache.present
    /\ \E r, q \in Slots :
          /\ r # q
          /\ req[r].kind = "POST" /\ req[r].pc = "post_reread" /\ req[r].cacheOps = 1
          /\ req[q].kind = "POST" /\ req[q].pc = "post_reread" /\ req[q].cacheOps = 1

\* C14: the step of a GET whose Cache read succeeds and finds an unexpired
\* entry answers 200 with exactly the entry's list, and changes neither the
\* Store nor the Cache entry; the request has made one Cache operation, the
\* read, and no Store access, so it succeeds with the Store unreachable.
C14_CacheHitOnly ==
    /\ [][\A r \in Slots :
            (/\ req[r].pc = "get_cache" /\ req'[r].pc # "get_cache"
             /\ ~req'[r].cacheFail
             /\ cache.present /\ now < cache.expireAt) =>
                /\ req'[r].pc = "done"
                /\ req'[r].resp = [status |-> 200, json |-> TRUE, error |-> "",
                                   list |-> cache.val]
                /\ req'[r].hit
                /\ req'[r].cacheOps = 1 /\ req'[r].seen = 0 /\ ~req'[r].storeFail
                /\ store' = store /\ nextId' = nextId /\ cache' = cache]_vars
    /\ [](\A r \in Slots :
            req[r].hit => (/\ Answered(r, "GET") /\ req[r].resp.status = 200
                           /\ req[r].cacheOps = 1 /\ ~req[r].storeFail))

\* a GET served a non-empty list from the Cache while the Store is unreachable
C14_Witness ==
    \E r \in Slots :
        /\ Answered(r, "GET") /\ req[r].hit /\ req[r].resp.status = 200
        /\ req[r].resp.list # <<>> /\ req[r].resp.list = cache.val
        /\ ~dbUp

\* C15: a GET that missed an available Cache and whose write succeeds answers
\* 200 with the full list it read from the Store and leaves exactly that list
\* in the Cache, to expire 3600 seconds later; every change of the entry is
\* such a write or a removal, an entry is served only before its expiry, that
\* is less than 3600 seconds after it was written, and no step of a GET
\* changes the Store.
C15_MissPopulatesCache ==
    /\ [][\A r \in Slots :
            (req[r].pc = "get_setex" /\ req'[r].pc # "get_setex" /\ ~req'[r].cacheFail) =>
                /\ req'[r].pc = "done"
                /\ req'[r].resp = [status |-> 200, json |-> TRUE, error |-> "",
                                   list |-> Stringify(req[r].rows)]
                /\ req'[r].resp.list \in Listings(req[r].seen)
                /\ cache' = [present |-> TRUE, val |-> req'[r].resp.list,
                             expireAt |-> now + 3600]
                /\ ~req'[r].hit]_vars
    /\ [][cache' # cache =>
            \/ ~cache'.present
            \/ cache'.present /\ cache'.expireAt = now + 3600]_vars
    /\ [][\A r \in Slots :
            (req'[r].hit /\ ~req[r].hit) =>
                (cache.present /\ now - (cache.expireAt - 3600) < 3600)]_vars
    /\ [](cache.present => cache.expireAt <= now + 3600)
    /\ [][\A r \in Slots :
            (req'[r].kind = "GET" /\ req'[r] # req[r]) =>
                (store' = store /\ nextId' = nextId)]_vars

\* an hour after startup a GET has missed the Cache, read two rows from the
\* Store and written them to the Cache
C15_Witness ==
    \E r \in Slots :
        /\ Answered(r, "GET") /\ ~req[r].hit /\ req[r].cacheOps = 2
        /\ req[r].resp.status = 200 /\ Len(req[r].resp.list) = 2
        /\ cache.present /\ cache.val = req[r].resp.list
        /\ now >= 3600 /\ cache.expireAt = now + 3600

\* C16: a POST of a non-blank string goes through insert, invalidation,
\* re-read and answer in this order: it leaves the insert for the invalidation
\* when the Cache is available (for the re-read only when it is not), the
\* invalidation is carried out only with the request's row in the Store, the
\* re-read follows the invalidation, and 201 is sent only from the re-read.
C16_WriteOrder ==
    /\ [][\A r \in Slots :
            (req[r].pc = "post_insert" /\ req'[r].pc # "post_insert") =>
                \/ req'[r].pc = "done" /\ req'[r].resp.status = 500 /\ store' = store
                \/ /\ Len(store') = Len(store) + 1
                   /\ req'[r].pc = (IF redisClient /\ isOpen THEN "post_del"
                                                               ELSE "post_reread")]_vars
    /\ [][\A r \in Slots :
            (req[r].pc = "post_del" /\ req'[r].pc # "post_del") =>
                /\ \E i \in 1..Len(store) : store[i].id = req[r].newId
                /\ \/ req'[r].pc = "done" /\ req'[r].resp.status = 500 /\ cache' = cache
                   \/ req'[r].pc = "post_reread" /\ ~cache'.present]_vars
    /\ [][\A r \in Slots :
            (req'[r].pc # req[r].pc /\ req'[r].pc = "post_del") =>
                (req[r].pc = "post_insert" /\ req'[r].kind = "POST")]_vars
    /\ [][\A r \in Slots :
            (req'[r] # req[r] /\ req'[r].pc = "done" /\ req'[r].resp.status = 201) =>
                (req[r].pc = "post_reread" /\ cache' = cache /\ store' = store)]_vars
    /\ [](\A r \in Slots :
            (req[r].kind = "POST" /\ redisClient /\ isOpen
             /\ (req[r].pc = "post_reread" \/ req[r].resp.status = 201)) =>
                req[r].cacheOps = 1)

\* the second of two POSTs, answered 201 after its invalidation, the Cache empty
C16_Witness ==
    \E r \in Slots :
        /\ Answered(r, "POST") /\ req[r].resp.status = 201 /\ req[r].cacheOps = 1
        /\ req[r].alone /\ ~cache.present /\ Len(store) = 2

\* C17: a POST that is answered with a status other than 201 has added no row:
\* at the step that answers it, no row of the Store is one it inserted.
C17_NoRowOnError ==
    [][\A r \in Slots :
         (/\ req[r].kind = "POST" /\ InFlight(r)
          /\ req'[r].pc = "done" /\ req'[r].resp.status # 201) =>
             ~(\E i \in 1..Len(store') : store'[i].id = req[r].newId)]_vars

\* C18: the Cache entry, when there is one, is the JSON form of a full list of
\* the first k rows of the Store in an order the query can give, for some k
\* up to the number of rows: every message in it is a row of the Store, none
\* of those k rows is missing, and the order is by created_at descending.
C18_CacheIsSnapshot ==
    cache.present =>
        /\ Len(cache.val) <= Len(store)
        /\ { cache.val[i] : i \in 1..Len(cache.val) }
               = { StringifyRow(store[j]) : j \in 1..Len(cache.val) }
        /\ \A i, j \in 1..Len(cache.val) :
               i < j => IsoGE(cache.val[i].created_at, cache.val[j].created_at)

\* the Cache holds the list of one row that was the full list earlier, while
\* the Store now has two rows and no request is in flight
C18_Witness ==
    /\ cache.present /\ Len(cache.val) = 1 /\ Len(store) = 2
    /\ cache.val[1].id = 1
    /\ Quiet

====
